---- MODULE Spec2Model ----
(***************************************************************************)
(* Model of the dvx orchestration state machine: cmd_run (cli.py), the     *)
(* phase sequencer _run_orchestrator_inner / _run_finalization and the     *)
(* escalation engine evaluate_trigger (orchestrator.py), the durable state *)
(* record (state.py) and the task-status override map (plan_parser.py).    *)
(*                                                                         *)
(* One plan is orchestrated by one process at a time.  The process sits at *)
(* a control point pc; every agent invocation is a suspension point whose  *)
(* result is drawn from a small set when the invocation returns.  The      *)
(* process may be killed at any control point (Kill); the durable          *)
(* variables survive, the process-local ones are rebuilt by the next run.  *)
(***************************************************************************)
EXTENDS Naturals, Integers, Sequences, FiniteSets, TLC

(* ------------------------------ bounds --------------------------------- *)
\* number of tasks in the plan document when it is first orchestrated
NTasks == 2
\* the splitter proposes a split only for the top-level tasks 1..MaxSplitId
MaxSplitId == 1
\* an agent output given to a parser holds at most MaxPhrases phrases
MaxPhrases == 3

(* ------------------------- program constants --------------------------- *)
\* State.max_iterations default
MaxIterations == 3
\* bound on the entries of the decision logs
MaxDecisions == 2
\* max_finalizer_iterations in _run_finalization
MaxFinalizerIterations == 5
\* get_change_stats thresholds
MassDeletionLines == 2000
MassDeletionRatio == 10
ManyFilesDeleted == 20

(* ------------------------------ state ---------------------------------- *)
VARIABLES
    \* durable, per plan (.dvx/<plan>/state.json, blocked-context.md,
    \* .dvx/task-status.json, the plan document)
    stateExists,    \* state.json exists
    phase,          \* State.phase
    curTask,        \* State.current_task_id (0 = None)
    iter,           \* State.iteration_count
    stepMode,       \* State.step_mode
    overrides,      \* task-status override map of this plan: id -> status
    plan,           \* the plan document as the parser lists it: <<[id, text]>>
    blockedCtx,     \* blocked-context.md exists
    \* process-local
    pc,             \* control point of the running process
    task,           \* the task fetched by the loop (0 = none)
    review,         \* the last reviewer result, classified
    escSrc,         \* trigger_source of the pending evaluate_trigger
    escRet,         \* control point evaluate_trigger's caller continues at
    finIter,        \* iteration of the finalizer loop
    exitCode,       \* return value of the last finished run (-1 = none)
    \* history (observation only; never read by an action's guard)
    lastOut,        \* the agent result consumed by the last step
    loopIters,      \* fix-loop iterations of the current task since the
                    \* task started in this run or non-convergence proceeded
    critOpen,       \* a critical review finding not yet passed by the engine
    resumedTask,    \* the task a kill left at phase REVIEWING, FIXING,
                    \* TESTING or COMMITTING before this run (0 = none)
    implRun,        \* the first-attempt implementer ran in this pass of the loop
    splitRun,       \* the splitter ran in this pass of the loop
    seqDone,        \* the task the loop marked DONE last, until the loop
                    \* fetches again (0 = none); survives the process
    treeMassive,    \* while a reviewer is out: get_change_stats would call
                    \* the change set it was given massive
    \* the reviewer's session
    session,        \* State.overseer_session_id in state.json ("none" = None)
    held,           \* overseer_session_id of the State object the run holds
    returned,       \* in the step that consumes a reviewer's result: the
                    \* session id run_reviewer returned ("none" otherwise)
    agentIds,       \* the session ids the agent command reports in its
                    \* event stream (none at all: it reports no session id)
    \* the shared store under two processes (one plan document each)
    docOf,          \* the plan document each process orchestrates
    statusFile,     \* .dvx/task-status.json: plan key -> (task id -> status)
    stateDirs,      \* .dvx/<plan key>/state.json: the phase it records
    wpc,            \* each process's position inside _save_status_override
    wdata,          \* the file content a process has loaded
    wreq,           \* the update a process is saving: [task, status]
    \* state.json of one plan, written by save_state
    stateFile,      \* what the file holds: AbsentFile, a State record, or
                    \* CutFile (opened for writing, text missing or incomplete)
    writer,         \* the process on the plan: [pos, rec, step]; pos is
                    \* "none" (no process), "running", or "opened" (inside
                    \* write_text, writing rec); step is its --step flag
    lastWhole,      \* the last record save_state wrote completely
    \* the plan's decision logs
    decLog,         \* topic -> the entries of DECISIONS-{topic}.md, in order
    agentBlocks,    \* the decision blocks implementers write (environment)
    \* one call of a pure function
    calc            \* [kind, arg, fn, ret]: the argument and, once the
                    \* function fn has been applied, what it returned

durable == <<stateExists, phase, curTask, iter, stepMode, overrides, plan, blockedCtx>>
local == <<pc, task, review, escSrc, escRet, finIter, exitCode>>
history == <<lastOut, loopIters, critOpen, resumedTask, implRun, splitRun, seqDone,
            treeMassive>>
store == <<docOf, statusFile, stateDirs, wpc, wdata, wreq>>
tokens == <<session, held, returned, agentIds>>
disk == <<stateFile, writer, lastWhole>>
logs == <<decLog, agentBlocks>>
vars == <<durable, local, history, store, calc, tokens, disk, logs>>

(* --------------------------- enumerations ------------------------------ *)
\* plan_parser.TaskStatus
PENDING == "pending"
IN_PROGRESS == "in_progress"
DONE == "done"
BLOCKED == "blocked"
TaskStatus == {PENDING, IN_PROGRESS, DONE, BLOCKED}

\* state.Phase
Phase == {"idle", "implementing", "reviewing", "fixing", "testing",
          "committing", "finalizing", "blocked", "paused", "complete"}

NoProcess == {"idle", "done", "dead"}

(* ------------------------ text and its parsers ------------------------- *)
\* A text is the set of the phrases that occur in it, in the casing the
\* author used; `x in text.lower()` is membership of x in LowerSet(text).
Lower(s) ==
    CASE s = "Merge To Main" -> "merge to main"
      [] s = "[ALREADY_COMPLETE]" -> "[already_complete]"
      [] s = "[APPROVED]" -> "[approved]"
      [] s = "[ISSUES]" -> "[issues]"
      [] s = "[CRITICAL]" -> "[critical]"
      [] s = "Prompt is too long" -> "prompt is too long"
      [] s = "[PROCEED]" -> "[proceed]"
      [] s = "[ESCALATE]" -> "[escalate]"
      [] s = "[SPLIT]" -> "[split]"
      [] s = "[NO_SPLIT]" -> "[no_split]"
      [] s = "## Subtasks" -> "## subtasks"
      [] s = "[POLISHED]" -> "[polished]"
      [] s = "[SUGGESTIONS]" -> "[suggestions]"
      [] s = "LGTM" -> "lgtm"
      [] s = "[BLOCKED]" -> "[blocked]"
      [] s = "Consider" -> "consider"
      [] s = "Security Vulnerability" -> "security vulnerability"
      [] s = "[Proceed]" -> "[proceed]"
      [] s = "[Escalate]" -> "[escalate]"
      [] OTHER -> s

LowerSet(text) == {Lower(s) : s \in text}

\* forbidden_patterns of validate_task_safety
ForbiddenPatterns ==
    {"merge to main", "merge to master", "push to main", "push to master",
     "deploy to", "deploy the", "production deploy", "release to",
     "merge branch", "git merge main", "git merge master"}

\* variant: the patterns are matched against the text as written
validate_task_safety_CaseSensitive(text) ==
    \A p \in ForbiddenPatterns : p \notin text

\* validate_task_safety: is_safe
validate_task_safety(text) ==
    \A p \in ForbiddenPatterns : p \notin LowerSet(text)

\* task texts the plans of the model are written from
SafeText == {"refactor", "deployment"}
UnsafeText == {"refactor", "Merge To Main"}
TaskTexts == {SafeText, UnsafeText}

\* variant: the marker is matched against the text as written
is_already_complete_CaseSensitive(text) == "[already_complete]" \in text

\* is_already_complete
is_already_complete(text) == "[already_complete]" \in LowerSet(text)

\* variant: the naive policy, any mention of security is critical
parse_review_result_BareSecurity(text) ==
    LET L == LowerSet(text)
        explicit_approved == "[approved]" \in L
        heuristic_approved == "lgtm" \in L \/ "looks good" \in L
        explicit_issues == "[issues]" \in L \/ "[suggestions]" \in L
        heuristic_issues == "should be" \in L \/ "consider" \in L \/ "recommend" \in L
        has_issues == explicit_issues \/ (heuristic_issues /\ ~explicit_approved)
        missing_tests == "missing test" \in L \/ "no test" \in L
                         \/ "add test" \in L \/ "needs test" \in L
        critical == "[critical]" \in L \/ "[blocked]" \in L
                    \/ "critical issue" \in L \/ "security vulnerability" \in L
                    \/ "security risk" \in L \/ "security flaw" \in L
                    \/ "security" \in L \/ "no security issues" \in L
        approved == (explicit_approved /\ ~critical)
                    \/ (heuristic_approved /\ ~has_issues /\ ~critical)
    IN  [approved |-> approved, has_issues |-> has_issues,
         missing_tests |-> missing_tests, critical |-> critical]

\* variant: an explicit approval stands whatever else the text says
parse_review_result_ApprovalWins(text) ==
    LET L == LowerSet(text)
        explicit_approved == "[approved]" \in L
        heuristic_approved == "lgtm" \in L \/ "looks good" \in L
        explicit_issues == "[issues]" \in L \/ "[suggestions]" \in L
        heuristic_issues == "should be" \in L \/ "consider" \in L \/ "recommend" \in L
        has_issues == explicit_issues \/ (heuristic_issues /\ ~explicit_approved)
        missing_tests == "missing test" \in L \/ "no test" \in L
                         \/ "add test" \in L \/ "needs test" \in L
        critical == "[critical]" \in L \/ "[blocked]" \in L
                    \/ "critical issue" \in L \/ "security vulnerability" \in L
                    \/ "security risk" \in L \/ "security flaw" \in L
        approved == explicit_approved
                    \/ (heuristic_approved /\ ~has_issues /\ ~critical)
    IN  [approved |-> approved, has_issues |-> has_issues,
         missing_tests |-> missing_tests, critical |-> critical]

\* parse_review_result
parse_review_result(text) ==
    LET L == LowerSet(text)
        explicit_approved == "[approved]" \in L
        heuristic_approved == "lgtm" \in L \/ "looks good" \in L
        explicit_issues == "[issues]" \in L \/ "[suggestions]" \in L
        heuristic_issues == "should be" \in L \/ "consider" \in L \/ "recommend" \in L
        has_issues == explicit_issues \/ (heuristic_issues /\ ~explicit_approved)
        missing_tests == "missing test" \in L \/ "no test" \in L
                         \/ "add test" \in L \/ "needs test" \in L
        critical == "[critical]" \in L \/ "[blocked]" \in L
                    \/ "critical issue" \in L \/ "security vulnerability" \in L
                    \/ "security risk" \in L \/ "security flaw" \in L
        approved == (explicit_approved /\ ~critical)
                    \/ (heuristic_approved /\ ~has_issues /\ ~critical)
    IN  [approved |-> approved, has_issues |-> has_issues,
         missing_tests |-> missing_tests, critical |-> critical]

\* variant: [proceed] is honoured whatever else the text says
parse_escalation_result_ProceedWins(text) ==
    LET proceed == "[proceed]" \in LowerSet(text)
        escalate == "[escalate]" \in LowerSet(text)
    IN  [proceed |-> proceed, escalate |-> escalate /\ ~proceed]

\* parse_escalation_result
parse_escalation_result(text) ==
    LET proceed == "[proceed]" \in LowerSet(text)
        escalate == "[escalate]" \in LowerSet(text)
    IN  [proceed |-> proceed /\ ~escalate, escalate |-> escalate]

\* variant: [no_split] does not take back [split]
parse_split_result_IgnoreNoSplit(text) ==
    LET L == LowerSet(text)
        should_split == "[split]" \in L
        subtasks == should_split /\ "## subtasks" \in L /\ "subtask body" \in L
    IN  [should_split |-> should_split, subtasks |-> subtasks]

\* parse_split_result; the phrase "subtask body" stands for a non-empty
\* section after the "## Subtasks" heading
parse_split_result(text) ==
    LET L == LowerSet(text)
        should_split == "[split]" \in L
        no_split == "[no_split]" \in L
        subtasks == should_split /\ "## subtasks" \in L /\ "subtask body" \in L
    IN  [should_split |-> should_split /\ ~no_split, subtasks |-> subtasks]

\* parse_polisher_result
parse_polisher_result(text) ==
    LET polished == "[polished]" \in LowerSet(text)
        has_suggestions == "[suggestions]" \in LowerSet(text)
    IN  [polished |-> polished /\ ~has_suggestions, has_suggestions |-> has_suggestions]

\* parse_finalizer_result
parse_finalizer_result(text) ==
    LET approved == "[approved]" \in LowerSet(text)
        has_issues == "[issues]" \in LowerSet(text)
    IN  [approved |-> approved /\ ~has_issues, has_issues |-> has_issues]

\* variant: the thresholds themselves count as massive
IsMassive_AtThreshold(stats) ==
    LET insertions == IF stats.insertions = 0 THEN 1 ELSE stats.insertions
        is_mass_deletion == stats.deletions >= MassDeletionLines
                            /\ stats.deletions >= MassDeletionRatio * insertions
        is_many_files_deleted == stats.files_deleted >= ManyFilesDeleted
    IN  is_mass_deletion \/ is_many_files_deleted

\* get_change_stats: is_massive
IsMassive(stats) ==
    LET insertions == IF stats.insertions = 0 THEN 1 ELSE stats.insertions
        is_mass_deletion == stats.deletions > MassDeletionLines
                            /\ stats.deletions > MassDeletionRatio * insertions
        is_many_files_deleted == stats.files_deleted > ManyFilesDeleted
    IN  is_mass_deletion \/ is_many_files_deleted

(* ----------------------- agent and git results ------------------------- *)
ImplOutputs == [success : BOOLEAN, blocked : BOOLEAN,
                text : {{}, {"[ALREADY_COMPLETE]"}}]
PlainOutputs == [success : BOOLEAN, blocked : BOOLEAN, text : {{}}]
ReviewTexts == {{"[APPROVED]"}, {"[ISSUES]"}, {"[ISSUES]", "[CRITICAL]"},
                {"[CRITICAL]"}, {"[APPROVED]", "missing test"}, {},
                {"Prompt is too long"}}
ReviewOutputs == [success : BOOLEAN, blocked : {FALSE}, text : ReviewTexts]
EscalaterOutputs == [success : BOOLEAN, blocked : {FALSE},
                     text : SUBSET {"[PROCEED]", "[ESCALATE]"}]
SplitOutputs == [success : BOOLEAN, blocked : {FALSE},
                 text : {{}, {"[NO_SPLIT]"}, {"[SPLIT]"}, {"[SPLIT]", "## Subtasks"},
                         {"[SPLIT]", "## Subtasks", "subtask body"},
                         {"[SPLIT]", "[NO_SPLIT]", "## Subtasks", "subtask body"}}]
PolisherOutputs == [success : BOOLEAN, blocked : {FALSE},
                    text : {{"[POLISHED]"}, {"[SUGGESTIONS]"}, {}}]
FinalizerOutputs == [success : BOOLEAN, blocked : {FALSE},
                     text : {{"[APPROVED]"}, {"[ISSUES]"}, {},
                             {"[APPROVED]", "[ISSUES]"}}]
ChangeStats == {[insertions |-> 100, deletions |-> 50, files_deleted |-> 0],
                [insertions |-> 100, deletions |-> 5000, files_deleted |-> 3],
                [insertions |-> 0, deletions |-> 0, files_deleted |-> 21]}

NoOut == [role |-> "none", success |-> TRUE, blocked |-> FALSE, text |-> {},
         blocks |-> <<>>]
Out(role, r) == [role |-> role, success |-> r.success, blocked |-> r.blocked,
                 text |-> r.text, blocks |-> <<>>]
NoReview == [too_long |-> FALSE, approved |-> FALSE,
             has_issues |-> FALSE, missing_tests |-> FALSE, critical |-> FALSE]

\* the fields of a reviewer result the loop reads later; too_long is what
\* the test at line 1523 reads from review_result.output, the others are
\* review = parse_review_result(review_result.output)
Classify(r) ==
    LET p == parse_review_result(r.text)
    IN  [too_long |-> "prompt is too long" \in LowerSet(r.text),
         approved |-> p.approved, has_issues |-> p.has_issues,
         missing_tests |-> p.missing_tests, critical |-> p.critical]

(* ---------------------------- plan accessor ---------------------------- *)
PlanIds == {plan[i].id : i \in 1..Len(plan)}
SubId(t, k) == t * 10 + k

\* _apply_status_overrides: the status parse_plan reports for a task; a
\* stored value that is no TaskStatus (ValueError) counts as pending
StatusIn(ov, t) ==
    IF t \in DOMAIN ov /\ ov[t] \in TaskStatus THEN ov[t] ELSE PENDING
Status(t) == StatusIn(overrides, t)

\* variant: a task without an override keeps the status the parser gave it
apply_status_overrides_KeepParsed(tasks, ov) ==
    [i \in 1..Len(tasks) |->
        IF tasks[i].id \in DOMAIN ov
        THEN [tasks[i] EXCEPT !.status = StatusIn(ov, tasks[i].id)]
        ELSE tasks[i]]

\* _apply_status_overrides on a parsed (or cached) task list
apply_status_overrides(tasks, ov) ==
    [i \in 1..Len(tasks) |-> [tasks[i] EXCEPT !.status = StatusIn(ov, tasks[i].id)]]

\* _save_status_override
SaveOverride(ov, t, s) == [x \in DOMAIN ov \cup {t} |-> IF x = t THEN s ELSE ov[x]]

FirstWith(ov, p, s) ==
    LET I == {i \in 1..Len(p) : StatusIn(ov, p[i].id) = s}
    IN  IF I = {} THEN 0 ELSE CHOOSE i \in I : \A j \in I : i <= j

\* variant: a pending task is preferred to the task in progress
get_next_pending_task_PendingFirst(ov, p) ==
    IF FirstWith(ov, p, PENDING) # 0 THEN FirstWith(ov, p, PENDING)
    ELSE FirstWith(ov, p, IN_PROGRESS)

\* get_next_pending_task: index into the plan, 0 = None
get_next_pending_task(ov, p) ==
    IF FirstWith(ov, p, IN_PROGRESS) # 0 THEN FirstWith(ov, p, IN_PROGRESS)
    ELSE FirstWith(ov, p, PENDING)

\* sync_plan_state: parsed is the status the parser read for every task
sync_plan_state(ov, p, parsed) ==
    LET ids == {p[i].id : i \in 1..Len(p)}
        keep == (DOMAIN ov \cap ids) \cup {t \in ids : parsed[t] = DONE}
    IN  [t \in keep |->
            IF parsed[t] = DONE THEN DONE
            ELSE IF parsed[t] = PENDING /\ ov[t] = DONE THEN PENDING
            ELSE ov[t]]

\* what the parser may read for the tasks of a plan; a task read as
\* in_progress or blocked is left alone by sync_plan_state exactly as one
\* read as pending whose recorded status is not done, so two readings suffice.
\* Between two runs the check mark of at most one task differs from what is
\* recorded; larger differences are reached through successive runs.
ParseResults(ov, p) ==
    LET ids == {p[i].id : i \in 1..Len(p)} IN
    {f \in [ids -> {PENDING, DONE}] :
        Cardinality({t \in ids : (f[t] = DONE) # (StatusIn(ov, t) = DONE)}) <= 1}

(* ------------------------------- Init ---------------------------------- *)
\* plan documents by path, and the processes that orchestrate them
Docs == {[dir |-> "plans", name |-> "a.md"], [dir |-> "plans", name |-> "b.md"],
         [dir |-> "archive", name |-> "a.md"]}
DocNames == {d.name : d \in Docs}
Procs == {1, 2}
StoreTaskIds == {1}

\* get_plan_dir_name and plan_key: Path(plan_file).name
PlanKey(doc) == doc.name

\* an absent or empty status file and no plan directory
EmptyStatusFile == [k \in DocNames |-> << >>]
NoStateDirs == [k \in DocNames |-> "none"]
NoRequest == [task |-> 0, status |-> PENDING]

\* the shared store with nobody using it
StoreQuiet ==
    /\ statusFile = EmptyStatusFile
    /\ stateDirs = NoStateDirs
    /\ wpc = [p \in Procs |-> "idle"]
    /\ wdata = [p \in Procs |-> EmptyStatusFile]
    /\ wreq = [p \in Procs |-> NoRequest]

\* no pure function is being called
NoCall == [kind |-> "none", arg |-> 0, fn |-> "none", ret |-> 0]

\* session ids a reviewer session can have
SessionIds == {"s1", "s2"}

\* what state.json holds when it holds no State record: no file, or a file
\* opened for writing whose text is missing or incomplete
AbsentFile == [file |-> "absent"]

CutFile == [file |-> "cut"]

\* load_state's None
NoState == [file |-> "None"]

\* the State records of one plan (state.py's State, without the iteration
\* count and the plan's path)
StateRecords ==
    [phase : Phase, task : 0..NTasks, session : {"none"} \cup SessionIds,
     step : BOOLEAN]

\* create_initial_state: phase IDLE, nothing else recorded
InitialState == [phase |-> "idle", task |-> 0, session |-> "none", step |-> FALSE]

\* no process on the plan
NoWriter == [pos |-> "none", rec |-> InitialState, step |-> FALSE]

\* topics of decision blocks, as the path DECISIONS-{topic}.md names below
\* the plan's directory: a topic with a slash names a file in a directory
\* that does not exist
Topics == {<<"db">>, <<"api", "auth">>}

\* the decision blocks an implementer's output can hold; whole: the marker
\* is followed by its Decision, Reasoning and Alternatives parts
DecisionBlocks ==
    [topic : Topics, decision : {"d1"}, whole : {TRUE}]
    \cup [topic : {<<"db">>}, decision : {"d2"}, whole : BOOLEAN]

\* the block sequences an output can hold while the logs have room
BlockSeqs(log) ==
    LET room == MaxDecisions - (Len(log[<<"db">>]) + Len(log[<<"api", "auth">>]))
        one == {<<b>> : b \in agentBlocks}
        two == {<<b, c>> : b \in agentBlocks, c \in agentBlocks}
    IN  {<<>>} \cup (IF room >= 1 THEN one ELSE {}) \cup (IF room >= 2 THEN two ELSE {})

\* parse_decisions: the blocks the pattern matches, in order
parse_decisions(blocks) == SelectSeq(blocks, LAMBDA b : b.whole)

\* log_decision: the entry is added at the end of the topic's file; writing
\* a file in a directory that does not exist raises FileNotFoundError
log_decision(log, b) ==
    IF Len(b.topic) = 1
    THEN [log |-> [log EXCEPT ![b.topic] = Append(@, b.decision)], raised |-> FALSE]
    ELSE [log |-> log, raised |-> TRUE]

RECURSIVE LogEach(_, _)
\* the loop of log_decisions_from_output over the parsed decisions
LogEach(ds, log) ==
    IF ds = <<>> THEN [log |-> log, raised |-> FALSE]
    ELSE LET r == log_decision(log, Head(ds)) IN
         IF r.raised THEN r ELSE LogEach(Tail(ds), r.log)

log_decisions_from_output(blocks, log) == LogEach(parse_decisions(blocks), log)

\* one process, one plan: nothing recorded yet
ProcessInit ==
    /\ decLog = [t \in Topics |-> <<>>]
    /\ stateFile = AbsentFile
    /\ writer = NoWriter
    /\ lastWhole = AbsentFile
    /\ stateExists = FALSE
    /\ phase = "idle"
    /\ curTask = 0
    /\ iter = 0
    /\ stepMode = FALSE
    /\ overrides = << >>
    /\ \E u \in {0, 1} :
          plan = [i \in 1..NTasks |->
                    [id |-> i, text |-> IF i = u THEN UnsafeText ELSE SafeText]]
    /\ blockedCtx = FALSE
    /\ pc = "idle"
    /\ task = 0
    /\ review = NoReview
    /\ escSrc = "none"
    /\ escRet = "none"
    /\ finIter = 0
    /\ exitCode = -1
    /\ lastOut = NoOut
    /\ loopIters = 0
    /\ critOpen = FALSE
    /\ resumedTask = 0
    /\ implRun = FALSE
    /\ splitRun = FALSE
    /\ seqDone = 0
    /\ treeMassive = FALSE
    /\ session = "none"
    /\ held = "none"
    /\ returned = "none"

Init ==
    /\ ProcessInit
    /\ StoreQuiet
    /\ docOf = [p \in Procs |-> CHOOSE d \in Docs : d.dir = "plans" /\ d.name = "a.md"]
    /\ calc = NoCall
    /\ agentIds = {}
    /\ agentBlocks = {}

(* ------------------------- shared fragments ---------------------------- *)
\* variant: the limit counts as exceeded when it is reached
increment_iteration_AtLimit(n) == [count |-> n + 1, exceeded |-> n + 1 >= MaxIterations]

\* State.increment_iteration: the new count and the exceeded flag
increment_iteration(n) == [count |-> n + 1, exceeded |-> n + 1 > MaxIterations]

\* variant: the escalater's own failure is not checked
evaluate_trigger_NoFailureCheck(r) == parse_escalation_result(r.text).proceed

\* evaluate_trigger: should_continue for an escalater result
evaluate_trigger(r) == r.success /\ parse_escalation_result(r.text).proceed

\* variant: a run that finds phase REVIEWING persisted resumes at the review
EntryPoint_ResumeAtPhase(ph) == IF ph = "reviewing" THEN "begin_review" ELSE "loop"

\* where _run_orchestrator_inner starts, whatever phase is persisted
EntryPoint(ph) == "loop"

\* a step that neither loads the state nor consumes a reviewer's result;
\* the State object is gone when the process has ended
KeepSession ==
    /\ session' = session
    /\ held' = IF pc' \in NoProcess THEN "none" ELSE held
    /\ returned' = "none"
    /\ agentIds' = agentIds

\* load_state: the run's State object is replaced by what state.json holds
LoadSession ==
    /\ session' = session
    /\ held' = IF pc' \in NoProcess THEN "none" ELSE session
    /\ returned' = "none"
    /\ agentIds' = agentIds

\* run_reviewer returns session id sid; a non-empty one is stored by
\* set_overseer_session, which leaves the run's own State object alone
StoreSession(sid) ==
    /\ returned' = sid
    /\ session' = IF sid # "none" THEN sid ELSE session
    /\ held' = held
    /\ agentIds' = agentIds

\* what run_claude reports as session id when resumed with token t: the id
\* found in the event stream, else t; None when the command is missing
ReportedIds(t) == {"none", t} \cup agentIds

\* the resume token an agent dispatched at control point p is given, h being
\* the token in the run's State object: run_reviewer passes it on,
\* run_implementer and the other roles start a fresh session
ResumeToken(p, h) == IF p \in {"review", "rereview"} THEN h ELSE "none"

\* continue at control point p
Goto(p) == pc' = p /\ UNCHANGED <<escSrc, escRet, exitCode>>

\* back to the head of the loop: the evaluate_trigger calls of the pass that
\* ends have returned, their arguments are gone
GotoLoop == pc' = "loop" /\ escSrc' = "none" /\ escRet' = "none" /\ exitCode' = exitCode

\* what a step inside the loop leaves alone unless it says otherwise
Stay == UNCHANGED <<task, review, finIter, loopIters, critOpen, resumedTask, implRun, splitRun>>

\* a pass of the loop ends (continue, or the end of the loop body)
EndPass ==
    /\ task' = 0
    /\ review' = NoReview
    /\ finIter' = finIter
    /\ loopIters' = 0
    /\ critOpen' = FALSE
    /\ resumedTask' = 0
    /\ implRun' = FALSE
    /\ splitRun' = FALSE

\* dispatch the escalater for a trigger, remembering where the caller resumes
Escalate(src, ret) == pc' = "esc" /\ escSrc' = src /\ escRet' = ret /\ exitCode' = exitCode

\* the process ends: what it held in memory is gone
Forget ==
    /\ task' = 0
    /\ review' = NoReview
    /\ escSrc' = "none"
    /\ escRet' = "none"
    /\ finIter' = 0
    /\ loopIters' = 0
    /\ critOpen' = FALSE
    /\ resumedTask' = 0
    /\ implRun' = FALSE
    /\ splitRun' = FALSE

\* the run returns with an exit code
ExitRun(code) == pc' = "done" /\ exitCode' = code /\ Forget

handle_blocked_NoPhaseWrite ==
    /\ phase' = phase
    /\ blockedCtx' = TRUE
    /\ ExitRun(1)

\* handle_blocked: phase BLOCKED, blocked context written, exit code 1
handle_blocked ==
    /\ phase' = "blocked"
    /\ blockedCtx' = TRUE
    /\ ExitRun(1)

(* ------------------------------ cmd_run -------------------------------- *)
\* the phases a kill leaves behind after the implementer's work
LaterPhases == {"reviewing", "fixing", "testing", "committing"}

\* a run starts at control point p
StartRun(p) ==
    /\ pc' = p
    /\ exitCode' = -1
    /\ task' = 0
    /\ review' = NoReview
    /\ escSrc' = "none"
    /\ escRet' = "none"
    /\ finIter' = 0
    /\ loopIters' = 0
    /\ critOpen' = FALSE
    /\ implRun' = FALSE
    /\ splitRun' = FALSE
    /\ resumedTask' = IF pc = "dead" /\ phase \in LaterPhases THEN curTask ELSE 0

RunOnComplete_Resumes(ok) ==
    /\ lastOut' = NoOut
    /\ phase' = "idle"
    /\ StartRun(EntryPoint(phase))
    /\ UNCHANGED <<stateExists, curTask, iter, stepMode, overrides, blockedCtx>>

\* cmd_run on a plan whose phase is COMPLETE: get_plan_summary parses the
\* plan for the summary line and the command returns 0.  parse_plan answers
\* from its cache when the document is as it was last parsed; otherwise it
\* calls the parser agent (ok: it answered), whose failure is an exception
\* that nothing catches, so the command ends with exit code 1.
RunOnComplete(ok) ==
    /\ \E cached \in BOOLEAN :
          IF cached
          THEN lastOut' = NoOut /\ ExitRun(0)
          ELSE /\ lastOut' = Out("parser", [success |-> ok, blocked |-> FALSE, text |-> {}])
               /\ ExitRun(IF ok THEN 0 ELSE 1)
    /\ UNCHANGED <<stateExists, phase, curTask, iter, stepMode, overrides, blockedCtx>>

\* `dvx run <plan> [--step]` up to the head of the orchestration loop.
\* ok: the parser agent of sync_plan_state answered; parsed: what it read.
CmdRun ==
    /\ pc \in NoProcess
    /\ treeMassive' = FALSE
    /\ UNCHANGED <<store, calc, disk, logs>>
    /\ UNCHANGED seqDone
    /\ IF stateExists /\ phase = "complete" THEN TRUE ELSE lastOut' = NoOut
    /\ plan' = plan
    /\ \E step \in BOOLEAN, ok \in BOOLEAN, parsed \in ParseResults(overrides, plan) :
        LET synced == sync_plan_state(overrides, plan, parsed) IN
        IF stateExists /\ phase = "blocked" THEN
            \* interactive session, clear_blocked, sync, run_orchestrator
            /\ blockedCtx' = FALSE
            /\ phase' = "idle"
            /\ UNCHANGED <<stateExists, curTask, iter, stepMode>>
            /\ IF ok
               THEN overrides' = synced /\ StartRun(EntryPoint(phase))
               ELSE overrides' = overrides /\ ExitRun(1)
        ELSE IF stateExists /\ phase = "paused" THEN
            /\ phase' = "idle"
            /\ StartRun(EntryPoint(phase))
            /\ UNCHANGED <<stateExists, curTask, iter, stepMode, overrides, blockedCtx>>
        ELSE IF stateExists /\ phase = "complete" THEN
            RunOnComplete(ok)
        ELSE IF ~ok THEN
            /\ ExitRun(1)
            /\ UNCHANGED <<stateExists, phase, curTask, iter, stepMode, overrides, blockedCtx>>
        ELSE IF ~stateExists THEN
            /\ overrides' = synced
            /\ blockedCtx' = blockedCtx
            /\ IF get_next_pending_task(synced, plan) = 0
               THEN /\ ExitRun(0)
                    /\ UNCHANGED <<stateExists, phase, curTask, iter, stepMode>>
               ELSE \* create_initial_state, state.step_mode = step_mode
                    /\ stateExists' = TRUE
                    /\ phase' = "idle"
                    /\ curTask' = 0
                    /\ iter' = 0
                    /\ stepMode' = step
                    /\ StartRun(EntryPoint("idle"))
        ELSE
            /\ overrides' = synced
            /\ stepMode' = (stepMode \/ step)
            /\ StartRun(EntryPoint(phase))
            /\ UNCHANGED <<stateExists, phase, curTask, iter, blockedCtx>>
    /\ LoadSession

\* the process is killed (or interrupted) at a control point
Kill ==
    /\ pc \notin NoProcess
    /\ treeMassive' = FALSE
    /\ UNCHANGED <<store, calc, disk, logs>>
    /\ UNCHANGED seqDone
    /\ pc' = "dead"
    /\ exitCode' = -1
    /\ Forget
    /\ lastOut' = NoOut
    /\ UNCHANGED durable
    /\ KeepSession

Interrupt_ReturnsZero ==
    /\ pc \notin NoProcess
    /\ treeMassive' = FALSE
    /\ UNCHANGED <<store, calc, disk, logs>>
    /\ UNCHANGED seqDone
    /\ ExitRun(0)
    /\ lastOut' = NoOut
    /\ UNCHANGED durable
    /\ KeepSession

\* the user interrupts the run: run_orchestrator catches KeyboardInterrupt
\* and returns 1, leaving the durable state as it stands
Interrupt ==
    /\ pc \notin NoProcess
    /\ treeMassive' = FALSE
    /\ UNCHANGED <<store, calc, disk, logs>>
    /\ UNCHANGED seqDone
    /\ ExitRun(1)
    /\ lastOut' = NoOut
    /\ UNCHANGED durable
    /\ KeepSession

(* ------------------------- the per-task loop --------------------------- *)
\* parse_plan misses its cache and the parser agent fails: the exception
\* is caught by run_orchestrator, which returns 1
ParseFails ==
    /\ pc = "loop"
    /\ treeMassive' = FALSE
    /\ UNCHANGED <<store, calc, disk, logs>>
    /\ UNCHANGED seqDone
    /\ ExitRun(1)
    /\ lastOut' = NoOut
    /\ UNCHANGED durable
    /\ KeepSession

\* head of the loop: fetch the next task, safety gate, dispatch the splitter;
\* with no task left, enter finalization and dispatch the polisher
NextTask ==
    /\ pc = "loop"
    /\ treeMassive' = FALSE
    /\ UNCHANGED <<store, calc, disk, logs>>
    /\ seqDone' = 0
    /\ lastOut' = NoOut
    /\ UNCHANGED <<stateExists, curTask, iter, stepMode, plan, blockedCtx>>
    /\ LET i == get_next_pending_task(overrides, plan) IN
        IF i = 0 THEN
            IF \A j \in 1..Len(plan) : Status(plan[j].id) \notin {PENDING, IN_PROGRESS}
            THEN /\ phase' = "finalizing"
                 /\ Goto("polish")
                 /\ Stay
                 /\ overrides' = overrides
            ELSE /\ ExitRun(1)
                 /\ UNCHANGED <<phase, overrides>>
        ELSE IF ~validate_task_safety(plan[i].text) THEN
            /\ overrides' = SaveOverride(overrides, plan[i].id, BLOCKED)
            /\ GotoLoop
            /\ EndPass
            /\ phase' = phase
        ELSE
            /\ task' = plan[i].id
            /\ splitRun' = TRUE
            /\ Goto("split")
            /\ UNCHANGED <<phase, overrides, review, finIter, loopIters, critOpen, resumedTask, implRun>>
    /\ KeepSession

\* set_current_task, IN_PROGRESS, phase IMPLEMENTING, dispatch the implementer
StartImplement ==
    /\ curTask' = task
    /\ iter' = 0
    /\ overrides' = SaveOverride(overrides, task, IN_PROGRESS)
    /\ phase' = "implementing"
    /\ Goto("impl")
    /\ implRun' = TRUE
    /\ loopIters' = 0
    /\ critOpen' = FALSE
    /\ UNCHANGED <<stateExists, stepMode, plan, blockedCtx, task, review, finIter>>
    /\ UNCHANGED <<resumedTask, splitRun, seqDone>>

\* the splitter proposes a split only for these tasks
CanSplit(t) == t <= MaxSplitId

\* the splitter returns
SplitterReturns ==
    /\ pc = "split"
    /\ treeMassive' = FALSE
    /\ UNCHANGED <<store, calc, disk, logs>>
    /\ \E r \in SplitOutputs :
        LET a == parse_split_result(r.text) IN
        /\ (r.success /\ a.should_split /\ a.subtasks) => CanSplit(task)
        /\ lastOut' = Out("splitter", r)
        /\ IF r.success /\ a.should_split /\ a.subtasks
           THEN /\ Goto("apply_split")
                /\ Stay
                /\ UNCHANGED seqDone
                /\ UNCHANGED durable
           ELSE StartImplement
    /\ KeepSession

\* the plan with task t replaced by the two subtasks t.1 and t.2 that the
\* splitter's "subtask body" proposes
SplitPlan(p, t, text) ==
    LET i == CHOOSE j \in 1..Len(p) : p[j].id = t
        subs == <<[id |-> SubId(t, 1), text |-> text], [id |-> SubId(t, 2), text |-> text]>>
    IN  SubSeq(p, 1, i - 1) \o subs \o SubSeq(p, i + 1, Len(p))

\* apply_task_split returns: the agent that edits the plan document has
\* replaced the task by its subtasks, or reports success with the task
\* still in the document as it was
ApplySplitReturns ==
    /\ pc = "apply_split"
    /\ treeMassive' = FALSE
    /\ UNCHANGED <<store, calc, disk, logs>>
    /\ \E r \in PlainOutputs, text \in {SafeText}, edited \in BOOLEAN :
        /\ lastOut' = Out("apply_split", r)
        /\ IF r.success
           THEN /\ plan' = IF edited THEN SplitPlan(plan, task, text) ELSE plan
                /\ GotoLoop
                /\ EndPass
                /\ UNCHANGED seqDone
                /\ UNCHANGED <<stateExists, phase, curTask, iter, stepMode, overrides, blockedCtx>>
           ELSE StartImplement
    /\ KeepSession

\* the first-attempt implementer returns
ImplementerReturns ==
    /\ pc = "impl"
    /\ treeMassive' = FALSE
    /\ UNCHANGED <<store, calc, disk, agentBlocks>>
    /\ \E r \in ImplOutputs, blocks \in BlockSeqs(decLog) :
        /\ lastOut' = [Out("implementer", r) EXCEPT !.blocks = blocks]
        /\ decLog' = log_decisions_from_output(blocks, decLog).log
        /\ IF log_decisions_from_output(blocks, decLog).raised THEN
               \* run_orchestrator catches the error and returns 1
               /\ ExitRun(1)
               /\ KeepSession
               /\ UNCHANGED seqDone
               /\ UNCHANGED durable
           ELSE IF is_already_complete(r.text) THEN
               /\ overrides' = SaveOverride(overrides, task, DONE)
               /\ iter' = 0
               /\ seqDone' = task
               /\ GotoLoop
               /\ EndPass
               /\ LoadSession
               /\ UNCHANGED <<stateExists, phase, curTask, stepMode, plan, blockedCtx>>
           ELSE
               /\ IF ~r.success \/ r.blocked
                  THEN Escalate("implementer", "begin_review")
                  ELSE Goto("begin_review")
               /\ Stay
               /\ KeepSession
               /\ UNCHANGED seqDone
               /\ UNCHANGED durable

\* phase REVIEWING, Change-Size Guard, dispatch the reviewer
BeginReview ==
    /\ pc = "begin_review"
    /\ treeMassive' = FALSE
    /\ UNCHANGED <<store, calc, disk, logs>>
    /\ UNCHANGED seqDone
    /\ lastOut' = NoOut
    /\ \E stats \in ChangeStats :
        IF IsMassive(stats)
        THEN handle_blocked
        ELSE phase' = "reviewing" /\ Goto("review") /\ Stay /\ blockedCtx' = blockedCtx
    /\ UNCHANGED <<stateExists, curTask, iter, stepMode, overrides, plan>>
    /\ KeepSession

\* the reviewer returns from the initial review
ReviewerReturns ==
    /\ pc = "review"
    /\ treeMassive' = FALSE
    /\ UNCHANGED <<store, calc, disk, logs>>
    /\ UNCHANGED seqDone
    /\ \E r \in ReviewOutputs, sid \in ReportedIds(held) :
        /\ StoreSession(sid)
        /\ lastOut' = Out("reviewer", r)
        /\ review' = Classify(r)
        /\ critOpen' = Classify(r).critical
        /\ IF ~r.success
           THEN Escalate("reviewer", "post_review")
           ELSE Goto("post_review")
    /\ UNCHANGED <<task, finIter, loopIters, resumedTask, implRun, splitRun>>
    /\ UNCHANGED durable

\* "prompt is too long" check of the initial review
PostReview ==
    /\ pc = "post_review"
    /\ treeMassive' = FALSE
    /\ UNCHANGED <<store, calc, disk, logs>>
    /\ UNCHANGED seqDone
    /\ lastOut' = NoOut
    /\ IF review.too_long
       THEN handle_blocked
       ELSE Goto("fix_head") /\ Stay /\ UNCHANGED <<phase, blockedCtx>>
    /\ UNCHANGED <<stateExists, curTask, iter, stepMode, overrides, plan>>
    /\ KeepSession

\* variant: the fix loop goes on with the State object it already holds
FixLoopHead_NoReload ==
    /\ pc = "fix_head"
    /\ treeMassive' = FALSE
    /\ UNCHANGED <<store, calc, disk, logs>>
    /\ UNCHANGED seqDone
    /\ lastOut' = NoOut
    /\ IF review.has_issues /\ ~review.approved
       THEN /\ iter' = increment_iteration(iter).count
            /\ loopIters' = loopIters + 1
            /\ IF increment_iteration(iter).exceeded
               THEN Escalate("orchestrator", "reset_iter")
               ELSE Goto("crit_check")
            /\ KeepSession
       ELSE /\ Goto("test_check")
            /\ UNCHANGED <<iter, loopIters>>
            /\ KeepSession
    /\ UNCHANGED <<task, review, finIter, critOpen, resumedTask, implRun, splitRun>>
    /\ UNCHANGED <<stateExists, phase, curTask, stepMode, overrides, plan, blockedCtx>>

\* head of the fix loop: loop condition, increment_iteration, exceeded check
FixLoopHead ==
    /\ pc = "fix_head"
    /\ treeMassive' = FALSE
    /\ UNCHANGED <<store, calc, disk, logs>>
    /\ UNCHANGED seqDone
    /\ lastOut' = NoOut
    /\ IF review.has_issues /\ ~review.approved
       THEN /\ iter' = increment_iteration(iter).count
            /\ loopIters' = loopIters + 1
            /\ IF increment_iteration(iter).exceeded
               THEN Escalate("orchestrator", "reset_iter")
               ELSE Goto("crit_check")
            /\ LoadSession
       ELSE /\ Goto("test_check")
            /\ UNCHANGED <<iter, loopIters>>
            /\ KeepSession
    /\ UNCHANGED <<task, review, finIter, critOpen, resumedTask, implRun, splitRun>>
    /\ UNCHANGED <<stateExists, phase, curTask, stepMode, overrides, plan, blockedCtx>>

\* the escalater allowed more iterations: reset the counter
ResetIteration ==
    /\ pc = "reset_iter"
    /\ treeMassive' = FALSE
    /\ UNCHANGED <<store, calc, disk, logs>>
    /\ UNCHANGED seqDone
    /\ lastOut' = NoOut
    /\ iter' = 0
    /\ loopIters' = 0
    /\ Goto("crit_check")
    /\ UNCHANGED <<task, review, finIter, critOpen, resumedTask, implRun, splitRun>>
    /\ UNCHANGED <<stateExists, phase, curTask, stepMode, overrides, plan, blockedCtx>>
    /\ KeepSession

\* a critical review inside the fix loop goes to the escalater
CriticalCheck ==
    /\ pc = "crit_check"
    /\ treeMassive' = FALSE
    /\ UNCHANGED <<store, calc, disk, logs>>
    /\ UNCHANGED seqDone
    /\ lastOut' = NoOut
    /\ IF review.critical
       THEN Escalate("reviewer", "fix_dispatch")
       ELSE Goto("fix_dispatch")
    /\ Stay
    /\ UNCHANGED durable
    /\ KeepSession

\* phase FIXING, dispatch the implementer with the review as feedback
FixDispatch ==
    /\ pc = "fix_dispatch"
    /\ treeMassive' = FALSE
    /\ UNCHANGED <<store, calc, disk, logs>>
    /\ UNCHANGED seqDone
    /\ lastOut' = NoOut
    /\ phase' = "fixing"
    /\ Goto("fix")
    /\ Stay
    /\ UNCHANGED <<stateExists, curTask, iter, stepMode, overrides, plan, blockedCtx>>
    /\ KeepSession

\* the fix implementer returns
FixReturns ==
    /\ pc = "fix"
    /\ treeMassive' = FALSE
    /\ UNCHANGED <<store, calc, disk, agentBlocks>>
    /\ UNCHANGED seqDone
    /\ \E r \in PlainOutputs, blocks \in BlockSeqs(decLog) :
        /\ lastOut' = [Out("fixer", r) EXCEPT !.blocks = blocks]
        /\ decLog' = log_decisions_from_output(blocks, decLog).log
        /\ IF log_decisions_from_output(blocks, decLog).raised
           THEN \* run_orchestrator catches the error and returns 1
                ExitRun(1)
           ELSE /\ IF ~r.success \/ r.blocked
                   THEN Escalate("implementer", "rereview_dispatch")
                   ELSE Goto("rereview_dispatch")
                /\ Stay
    /\ UNCHANGED durable
    /\ KeepSession

\* phase REVIEWING, dispatch the reviewer again
ReReviewDispatch ==
    /\ pc = "rereview_dispatch"
    /\ \E stats \in ChangeStats : treeMassive' = IsMassive(stats)
    /\ UNCHANGED <<store, calc, disk, logs>>
    /\ UNCHANGED seqDone
    /\ lastOut' = NoOut
    /\ phase' = "reviewing"
    /\ Goto("rereview")
    /\ Stay
    /\ UNCHANGED <<stateExists, curTask, iter, stepMode, overrides, plan, blockedCtx>>
    /\ KeepSession

\* the reviewer returns from a re-review
ReReviewReturns ==
    /\ pc = "rereview"
    /\ treeMassive' = FALSE
    /\ UNCHANGED <<store, calc, disk, logs>>
    /\ UNCHANGED seqDone
    /\ \E r \in ReviewOutputs, sid \in ReportedIds(held) :
        /\ StoreSession(sid)
        /\ lastOut' = Out("rereviewer", r)
        /\ review' = Classify(r)
        /\ critOpen' = Classify(r).critical
    /\ Goto("fix_head")
    /\ UNCHANGED <<task, finIter, loopIters, resumedTask, implRun, splitRun>>
    /\ UNCHANGED durable

\* missing tests: phase TESTING and dispatch the test writer; the review is
\* not read again, review_result keeps the last reviewer output
TestCheck ==
    /\ pc = "test_check"
    /\ treeMassive' = FALSE
    /\ UNCHANGED <<store, calc, disk, logs>>
    /\ UNCHANGED seqDone
    /\ lastOut' = NoOut
    /\ IF review.missing_tests
       THEN phase' = "testing" /\ Goto("test")
       ELSE phase' = phase /\ Goto("commit_dispatch")
    /\ review' = [NoReview EXCEPT !.too_long = review.too_long]
    /\ UNCHANGED <<task, finIter, loopIters, critOpen, resumedTask, implRun, splitRun>>
    /\ UNCHANGED <<stateExists, curTask, iter, stepMode, overrides, plan, blockedCtx>>
    /\ KeepSession

\* the test writer returns
TestReturns ==
    /\ pc = "test"
    /\ treeMassive' = FALSE
    /\ UNCHANGED <<store, calc, disk, logs>>
    /\ UNCHANGED seqDone
    /\ \E r \in PlainOutputs :
        /\ lastOut' = Out("tester", r)
        /\ IF ~r.success \/ r.blocked
           THEN Escalate("implementer", "commit_dispatch")
           ELSE Goto("commit_dispatch")
    /\ Stay
    /\ UNCHANGED durable
    /\ KeepSession

\* variant: the commit role is dispatched before the phase is written
CommitDispatch_NoPhaseWrite ==
    /\ pc = "commit_dispatch"
    /\ treeMassive' = FALSE
    /\ UNCHANGED <<store, calc, disk, logs>>
    /\ UNCHANGED seqDone
    /\ lastOut' = NoOut
    /\ phase' = phase
    /\ Goto("commit")
    /\ Stay
    /\ UNCHANGED <<stateExists, curTask, iter, stepMode, overrides, plan, blockedCtx>>
    /\ KeepSession

\* phase COMMITTING, dispatch the commit role
CommitDispatch ==
    /\ pc = "commit_dispatch"
    /\ treeMassive' = FALSE
    /\ UNCHANGED <<store, calc, disk, logs>>
    /\ UNCHANGED seqDone
    /\ lastOut' = NoOut
    /\ phase' = "committing"
    /\ Goto("commit")
    /\ Stay
    /\ UNCHANGED <<stateExists, curTask, iter, stepMode, overrides, plan, blockedCtx>>
    /\ KeepSession

\* the commit role returns
CommitReturns ==
    /\ pc = "commit"
    /\ treeMassive' = FALSE
    /\ UNCHANGED <<store, calc, disk, logs>>
    /\ UNCHANGED seqDone
    /\ \E r \in PlainOutputs :
        /\ lastOut' = Out("commit", r)
        /\ IF ~r.success \/ r.blocked
           THEN Escalate("implementer", "mark_done")
           ELSE Goto("mark_done")
    /\ Stay
    /\ UNCHANGED durable
    /\ KeepSession

\* variant: PAUSED is written but the run goes on with the next task
MarkDone_PauseAndGoOn ==
    /\ pc = "mark_done"
    /\ treeMassive' = FALSE
    /\ UNCHANGED <<store, calc, disk, logs>>
    /\ seqDone' = task
    /\ lastOut' = NoOut
    /\ overrides' = SaveOverride(overrides, task, DONE)
    /\ iter' = 0
    /\ IF stepMode
       THEN /\ phase' = "paused"
            /\ GotoLoop
            /\ EndPass
       ELSE /\ phase' = phase
            /\ GotoLoop
            /\ EndPass
    /\ UNCHANGED <<stateExists, curTask, stepMode, plan, blockedCtx>>
    /\ LoadSession

\* variant: the counter is left as the fix loop left it
MarkDone_KeepCount ==
    /\ pc = "mark_done"
    /\ treeMassive' = FALSE
    /\ UNCHANGED <<store, calc, disk, logs>>
    /\ seqDone' = task
    /\ lastOut' = NoOut
    /\ overrides' = SaveOverride(overrides, task, DONE)
    /\ iter' = iter
    /\ IF stepMode
       THEN /\ phase' = "paused"
            /\ ExitRun(0)
       ELSE /\ phase' = phase
            /\ GotoLoop
            /\ EndPass
    /\ UNCHANGED <<stateExists, curTask, stepMode, plan, blockedCtx>>
    /\ LoadSession

\* mark the task DONE, reset the counter, pause in step mode
MarkDone ==
    /\ pc = "mark_done"
    /\ treeMassive' = FALSE
    /\ UNCHANGED <<store, calc, disk, logs>>
    /\ seqDone' = task
    /\ lastOut' = NoOut
    /\ overrides' = SaveOverride(overrides, task, DONE)
    /\ iter' = 0
    /\ IF stepMode
       THEN /\ phase' = "paused"
            /\ ExitRun(0)
       ELSE /\ phase' = phase
            /\ GotoLoop
            /\ EndPass
    /\ UNCHANGED <<stateExists, curTask, stepMode, plan, blockedCtx>>
    /\ LoadSession

(* -------------------------- escalation engine -------------------------- *)
\* the escalater returns to evaluate_trigger
EscalaterReturns ==
    /\ pc = "esc"
    /\ treeMassive' = FALSE
    /\ UNCHANGED <<store, calc, disk, logs>>
    /\ UNCHANGED seqDone
    /\ \E r \in EscalaterOutputs :
        /\ lastOut' = Out("escalater", r)
        /\ IF evaluate_trigger(r)
           THEN /\ Goto(escRet)
                /\ critOpen' = IF escRet = "fix_dispatch" THEN FALSE ELSE critOpen
                /\ UNCHANGED <<phase, blockedCtx>>
                /\ UNCHANGED <<task, review, finIter, loopIters, resumedTask, implRun, splitRun>>
           ELSE handle_blocked
    /\ UNCHANGED <<stateExists, curTask, iter, stepMode, overrides, plan>>
    /\ KeepSession

(* ----------------------------- finalization ---------------------------- *)
\* the polisher returns
PolisherReturns ==
    /\ pc = "polish"
    /\ treeMassive' = FALSE
    /\ UNCHANGED <<store, calc, disk, logs>>
    /\ UNCHANGED seqDone
    /\ \E r \in PolisherOutputs :
        /\ lastOut' = Out("polisher", r)
        /\ IF ~r.success THEN Escalate("polisher", "fin_loop")
           ELSE IF parse_polisher_result(r.text).has_suggestions THEN Goto("polish_fix")
           ELSE Goto("fin_loop")
    /\ Stay
    /\ UNCHANGED durable
    /\ KeepSession

\* the polish fix pass returns
PolishFixReturns ==
    /\ pc = "polish_fix"
    /\ treeMassive' = FALSE
    /\ UNCHANGED <<store, calc, disk, logs>>
    /\ UNCHANGED seqDone
    /\ \E r \in PlainOutputs :
        /\ lastOut' = Out("polish_fix", r)
        /\ IF ~r.success \/ r.blocked
           THEN Escalate("implementer", "polish_commit")
           ELSE Goto("polish_commit")
    /\ Stay
    /\ UNCHANGED durable
    /\ KeepSession

\* the polish commit returns
PolishCommitReturns ==
    /\ pc = "polish_commit"
    /\ treeMassive' = FALSE
    /\ UNCHANGED <<store, calc, disk, logs>>
    /\ UNCHANGED seqDone
    /\ \E r \in PlainOutputs :
        /\ lastOut' = Out("polish_commit", r)
        /\ IF ~r.success \/ r.blocked
           THEN Escalate("implementer", "fin_loop")
           ELSE Goto("fin_loop")
    /\ Stay
    /\ UNCHANGED durable
    /\ KeepSession

FinalizerLoop_OffByOne ==
    /\ pc = "fin_loop"
    /\ treeMassive' = FALSE
    /\ UNCHANGED <<store, calc, disk, logs>>
    /\ UNCHANGED seqDone
    /\ lastOut' = NoOut
    /\ IF finIter <= MaxFinalizerIterations
       THEN finIter' = finIter + 1 /\ Goto("finalizer")
       ELSE finIter' = finIter /\ Escalate("orchestrator", "cleanup")
    /\ UNCHANGED <<task, review, loopIters, critOpen, resumedTask, implRun, splitRun>>
    /\ UNCHANGED durable
    /\ KeepSession

\* head of the finalizer loop; its else branch escalates non-convergence
FinalizerLoop ==
    /\ pc = "fin_loop"
    /\ treeMassive' = FALSE
    /\ UNCHANGED <<store, calc, disk, logs>>
    /\ UNCHANGED seqDone
    /\ lastOut' = NoOut
    /\ IF finIter < MaxFinalizerIterations
       THEN finIter' = finIter + 1 /\ Goto("finalizer")
       ELSE finIter' = finIter /\ Escalate("orchestrator", "cleanup")
    /\ UNCHANGED <<task, review, loopIters, critOpen, resumedTask, implRun, splitRun>>
    /\ UNCHANGED durable
    /\ KeepSession

\* the finalizer returns
FinalizerReturns ==
    /\ pc = "finalizer"
    /\ treeMassive' = FALSE
    /\ UNCHANGED <<store, calc, disk, logs>>
    /\ UNCHANGED seqDone
    /\ \E r \in FinalizerOutputs :
        /\ lastOut' = Out("finalizer", r)
        /\ IF ~r.success THEN Escalate("finalizer", "cleanup")
           ELSE IF parse_finalizer_result(r.text).approved THEN Goto("cleanup")
           ELSE IF parse_finalizer_result(r.text).has_issues THEN Goto("finalizer_fix")
           ELSE Goto("cleanup")
    /\ Stay
    /\ UNCHANGED durable
    /\ KeepSession

\* the finalizer fix pass returns
FinalizerFixReturns ==
    /\ pc = "finalizer_fix"
    /\ treeMassive' = FALSE
    /\ UNCHANGED <<store, calc, disk, logs>>
    /\ UNCHANGED seqDone
    /\ \E r \in PlainOutputs :
        /\ lastOut' = Out("finalizer_fix", r)
        /\ IF ~r.success \/ r.blocked
           THEN Escalate("implementer", "fin_loop")
           ELSE Goto("fin_loop")
    /\ Stay
    /\ UNCHANGED durable
    /\ KeepSession

\* cleanup_plan: phase COMPLETE, return 0
Cleanup ==
    /\ pc = "cleanup"
    /\ treeMassive' = FALSE
    /\ UNCHANGED <<store, calc, disk, logs>>
    /\ UNCHANGED seqDone
    /\ lastOut' = NoOut
    /\ phase' = "complete"
    /\ ExitRun(0)
    /\ UNCHANGED <<stateExists, curTask, iter, stepMode, overrides, plan, blockedCtx>>
    /\ KeepSession

(* --------------------------- specification ----------------------------- *)
Next ==
    \/ CmdRun
    \/ Kill
    \/ Interrupt
    \/ ParseFails
    \/ NextTask
    \/ SplitterReturns
    \/ ApplySplitReturns
    \/ ImplementerReturns
    \/ BeginReview
    \/ ReviewerReturns
    \/ PostReview
    \/ FixLoopHead
    \/ ResetIteration
    \/ CriticalCheck
    \/ FixDispatch
    \/ FixReturns
    \/ ReReviewDispatch
    \/ ReReviewReturns
    \/ TestCheck
    \/ TestReturns
    \/ CommitDispatch
    \/ CommitReturns
    \/ MarkDone
    \/ EscalaterReturns
    \/ PolisherReturns
    \/ PolishFixReturns
    \/ PolishCommitReturns
    \/ FinalizerLoop
    \/ FinalizerReturns
    \/ FinalizerFixReturns
    \/ Cleanup

Spec == Init /\ [][Next]_vars

\* the orchestrator with an agent command that reports session ids
SessionInit ==
    /\ ProcessInit
    /\ StoreQuiet
    /\ docOf = [p \in Procs |-> CHOOSE d \in Docs : d.dir = "plans" /\ d.name = "a.md"]
    /\ calc = NoCall
    /\ agentIds = SessionIds
    /\ agentBlocks = {}

SessionSpec == SessionInit /\ [][Next]_vars

\* the orchestrator with implementers that write decision blocks
DecisionInit ==
    /\ ProcessInit
    /\ StoreQuiet
    /\ docOf = [p \in Procs |-> CHOOSE d \in Docs : d.dir = "plans" /\ d.name = "a.md"]
    /\ calc = NoCall
    /\ agentIds = {}
    /\ agentBlocks = DecisionBlocks

DecisionSpec == DecisionInit /\ [][Next]_vars

(* ------------------------- one run, to its end ------------------------- *)
\* a step of run_orchestrator after cmd_run has called it
SequencerStep ==
    \/ ParseFails
    \/ NextTask
    \/ SplitterReturns
    \/ ApplySplitReturns
    \/ ImplementerReturns
    \/ BeginReview
    \/ ReviewerReturns
    \/ PostReview
    \/ FixLoopHead
    \/ ResetIteration
    \/ CriticalCheck
    \/ FixDispatch
    \/ FixReturns
    \/ ReReviewDispatch
    \/ ReReviewReturns
    \/ TestCheck
    \/ TestReturns
    \/ CommitDispatch
    \/ CommitReturns
    \/ MarkDone
    \/ EscalaterReturns
    \/ PolisherReturns
    \/ PolishFixReturns
    \/ PolishCommitReturns
    \/ FinalizerLoop
    \/ FinalizerReturns
    \/ FinalizerFixReturns
    \/ Cleanup

\* the first `dvx run` on a plan, then the run itself
RunNext ==
    \/ pc = "idle" /\ CmdRun
    \/ SequencerStep

\* every agent call returns (run_claude has a timeout) and the process is
\* left running, so the Sequencer always takes its next step
RunSpec == Init /\ [][RunNext]_vars /\ WF_vars(SequencerStep)

(* ---------------------- calls of pure functions ------------------------ *)
\* the texts of at most n phrases written from the vocabulary V
RECURSIVE TextsOver(_, _)
TextsOver(V, n) ==
    IF n = 0 THEN {{}}
    ELSE LET T == TextsOver(V, n - 1) IN T \cup {t \cup {p} : t \in T, p \in V}

\* phrases a reviewer's output is written from: every marker and phrase
\* parse_review_result looks for, in some casing, and two harmless mentions
\* of security
ReviewVocabulary ==
    {"[APPROVED]", "[approved]", "LGTM", "looks good",
     "[ISSUES]", "[suggestions]", "should be", "Consider", "recommend",
     "missing test", "no test", "add test", "needs test",
     "[CRITICAL]", "[BLOCKED]", "critical issue", "Security Vulnerability",
     "security risk", "security flaw", "security", "no security issues"}

\* the argument of a call, not yet applied
Arg(kind, a) == [kind |-> kind, arg |-> a, fn |-> "none", ret |-> 0]

\* the function fn returns r
Return(fn, r) ==
    /\ calc.fn = "none"
    /\ calc' = [calc EXCEPT !.fn = fn, !.ret = r]
    /\ UNCHANGED <<durable, local, history, store, tokens, disk, logs>>

\* parse_review_result(output)
CallParseReview ==
    /\ calc.kind = "review"
    /\ Return("parse_review_result", parse_review_result(calc.arg))

\* phrases an escalater's output is written from: the two markers in three
\* casings, and the two words without brackets
EscalationVocabulary ==
    {"[PROCEED]", "[Proceed]", "[proceed]", "[ESCALATE]", "[Escalate]",
     "[escalate]", "proceed", "escalate"}

\* parse_escalation_result(output)
CallParseEscalation ==
    /\ calc.kind = "escalation"
    /\ Return("parse_escalation_result", parse_escalation_result(calc.arg))

\* task lists as the parser or the cache may deliver them, and override
\* maps as the status file may hold them ("bogus": no valid status)
RECURSIVE SeqsUpTo(_, _)
SeqsUpTo(S, n) ==
    IF n = 0 THEN {<< >>}
    ELSE LET Q == SeqsUpTo(S, n - 1)
         IN  Q \cup {Append(q, x) : q \in {r \in Q : Len(r) = n - 1}, x \in S}
ParsedTaskLists == SeqsUpTo([id : 1..NTasks, status : TaskStatus], NTasks)
OverrideMaps ==
    UNION {[D -> TaskStatus \cup {"bogus"}] : D \in SUBSET (1..NTasks)}

\* _apply_status_overrides(tasks, plan_filepath)
CallApplyOverrides ==
    /\ calc.kind = "tasks"
    /\ Return("_apply_status_overrides",
              apply_status_overrides(calc.arg.tasks, calc.arg.ov))

\* get_next_pending_task(filepath): index of the task returned, 0 = None
CallNextPending ==
    /\ calc.kind = "tasks"
    /\ Return("get_next_pending_task",
              get_next_pending_task(calc.arg.ov, calc.arg.tasks))

\* change statistics on and around the thresholds of get_change_stats
StatsAroundThresholds ==
    [insertions : {0, 1, 200, 201, 202},
     deletions : {0, 10, 11, MassDeletionLines, MassDeletionLines + 1,
                  2010, 2011, 2020, 2021, 5000},
     files_deleted : {0, ManyFilesDeleted, ManyFilesDeleted + 1}]

\* get_change_stats, from the parsed counts to is_massive
CallIsMassive ==
    /\ calc.kind = "stats"
    /\ Return("get_change_stats", IsMassive(calc.arg))

\* the arguments the functions are called with
CallInit ==
    /\ ProcessInit
    /\ agentIds = {}
    /\ agentBlocks = {}
    /\ plan[1].text = SafeText
    /\ StoreQuiet
    /\ docOf = [p \in Procs |-> CHOOSE d \in Docs : d.dir = "plans" /\ d.name = "a.md"]
    /\ \/ \E t \in TextsOver(ReviewVocabulary, MaxPhrases) : calc = Arg("review", t)
       \/ \E t \in TextsOver(EscalationVocabulary, MaxPhrases) : calc = Arg("escalation", t)
       \/ \E l \in ParsedTaskLists, ov \in OverrideMaps :
             calc = Arg("tasks", [tasks |-> l, ov |-> ov])
       \/ \E st \in StatsAroundThresholds : calc = Arg("stats", st)

CallNext ==
    \/ CallParseReview
    \/ CallParseEscalation
    \/ CallApplyOverrides
    \/ CallNextPending
    \/ CallIsMassive

CallSpec == CallInit /\ [][CallNext]_vars

(* --------------------- state.json, write by write ---------------------- *)
\* load_state: None when the file is missing or its text is no JSON document
load_state(f) == IF f \in {AbsentFile, CutFile} THEN NoState ELSE f

\* save_state, first half: write_text opens the file, which empties it
OpenForWrite(rec) ==
    /\ stateFile' = CutFile
    /\ writer' = [writer EXCEPT !.pos = "opened", !.rec = rec]
    /\ lastWhole' = lastWhole

\* `dvx run`: cmd_run and _run_orchestrator_inner load the state; without
\* one, create_initial_state saves a new record
RunLoadsState ==
    /\ writer.pos = "none"
    /\ \E step \in BOOLEAN :
          IF load_state(stateFile) = NoState
          THEN /\ stateFile' = CutFile
               /\ writer' = [pos |-> "opened", rec |-> InitialState, step |-> step]
               /\ lastWhole' = lastWhole
          ELSE /\ writer' = [pos |-> "running", rec |-> stateFile, step |-> step]
               /\ UNCHANGED <<stateFile, lastWhole>>
    /\ UNCHANGED <<durable, local, history, store, calc, tokens, logs>>

\* the records update_phase, set_current_task, set_overseer_session and the
\* step-mode switch of a run started with --step make of record r
Updates(r, step) ==
    {[r EXCEPT !.phase = ph] : ph \in {"implementing", "reviewing", "blocked", "paused"}}
    \cup {[r EXCEPT !.task = t] : t \in 1..NTasks}
    \cup {[r EXCEPT !.session = sid] : sid \in SessionIds}
    \cup (IF step THEN {[r EXCEPT !.step = TRUE]} ELSE {})

\* a state update of the running process: load_state, change, save_state
SaveStateOpens ==
    /\ writer.pos = "running"
    /\ load_state(stateFile) # NoState
    /\ \E rec \in Updates(load_state(stateFile), writer.step) \ {stateFile} :
          OpenForWrite(rec)
    /\ UNCHANGED <<durable, local, history, store, calc, tokens, logs>>

\* save_state, second half: the text is written and the file closed
SaveStateWrites ==
    /\ writer.pos = "opened"
    /\ stateFile' = writer.rec
    /\ lastWhole' = writer.rec
    /\ writer' = [writer EXCEPT !.pos = "running"]
    /\ UNCHANGED <<durable, local, history, store, calc, tokens, logs>>

\* the process is killed or interrupted, wherever it is
ProcessEnds ==
    /\ writer.pos # "none"
    /\ writer' = [writer EXCEPT !.pos = "none"]
    /\ UNCHANGED <<stateFile, lastWhole>>
    /\ UNCHANGED <<durable, local, history, store, calc, tokens, logs>>

DiskNext ==
    \/ RunLoadsState
    \/ SaveStateOpens
    \/ SaveStateWrites
    \/ ProcessEnds

DiskSpec == Init /\ [][DiskNext]_vars

(* ------------------ the store under two processes ---------------------- *)
\* _save_status_override, first half: load the whole status file
LoadStatusFile(p) ==
    /\ wpc[p] = "idle"
    /\ \E t \in StoreTaskIds, st \in {IN_PROGRESS, DONE} :
          wreq' = [wreq EXCEPT ![p] = [task |-> t, status |-> st]]
    /\ wdata' = [wdata EXCEPT ![p] = statusFile]
    /\ wpc' = [wpc EXCEPT ![p] = "loaded"]
    /\ UNCHANGED <<docOf, statusFile, stateDirs>>
    /\ UNCHANGED <<durable, local, history, calc, tokens, disk, logs>>

\* _save_status_override, second half: set data[plan_key][task_id] in what
\* was loaded and write the whole file back
WriteStatusFile(p) ==
    /\ wpc[p] = "loaded"
    /\ statusFile' = [wdata[p] EXCEPT ![PlanKey(docOf[p])] =
                          SaveOverride(@, wreq[p].task, wreq[p].status)]
    /\ wpc' = [wpc EXCEPT ![p] = "idle"]
    /\ wdata' = [wdata EXCEPT ![p] = EmptyStatusFile]
    /\ wreq' = [wreq EXCEPT ![p] = NoRequest]
    /\ UNCHANGED <<docOf, stateDirs>>
    /\ UNCHANGED <<durable, local, history, calc, tokens, disk, logs>>

\* update_phase: load_state, set the phase, save_state in .dvx/<plan key>/
SavePhase(p) ==
    /\ wpc[p] = "idle"
    /\ \E ph \in {"implementing", "blocked"} :
          stateDirs' = [stateDirs EXCEPT ![PlanKey(docOf[p])] = ph]
    /\ UNCHANGED <<docOf, statusFile, wpc, wdata, wreq>>
    /\ UNCHANGED <<durable, local, history, calc, tokens, disk, logs>>

\* two processes started on two different plan documents of one working tree
StoreInit ==
    /\ ProcessInit
    /\ StoreQuiet
    /\ docOf \in {f \in [Procs -> Docs] :
                    f[1] # f[2] /\ f[1].dir = "plans" /\ f[1].name = "a.md"}
    /\ calc = NoCall
    /\ agentIds = {}
    /\ agentBlocks = {}

StoreNext ==
    \/ \E p \in Procs : LoadStatusFile(p)
    \/ \E p \in Procs : WriteStatusFile(p)
    \/ \E p \in Procs : SavePhase(p)

StoreSpec == StoreInit /\ [][StoreNext]_vars

TypeOK ==
    /\ stateExists \in BOOLEAN
    /\ phase \in Phase
    /\ iter \in 0..(MaxIterations + 1)
    /\ stepMode \in BOOLEAN
    /\ \A t \in DOMAIN overrides : overrides[t] \in TaskStatus
    /\ blockedCtx \in BOOLEAN
    /\ exitCode \in {-1, 0, 1}
    /\ seqDone \in {0} \cup PlanIds
    /\ treeMassive \in BOOLEAN
    /\ session \in {"none"} \cup SessionIds
    /\ held \in {"none"} \cup SessionIds
    /\ returned \in {"none"} \cup SessionIds
    /\ agentIds \subseteq SessionIds
    /\ agentBlocks \subseteq DecisionBlocks
    /\ \A t \in Topics : Len(decLog[t]) <= MaxDecisions
    /\ stateFile \in {AbsentFile, CutFile} \cup StateRecords
    /\ lastWhole \in {AbsentFile} \cup StateRecords
    /\ writer \in [pos : {"none", "running", "opened"}, rec : StateRecords,
                   step : BOOLEAN]

(* ------------------------------ properties ----------------------------- *)
\* control points at which a role after the implementer has been dispatched
LaterRoles == {"review", "fix", "rereview", "test", "commit"}

InFixLoop ==
    \/ pc \in {"crit_check", "fix_dispatch", "fix", "rereview_dispatch", "rereview"}
    \/ pc = "esc" /\ escRet \in {"fix_dispatch", "rereview_dispatch"}

\* C2: the non-convergence escalation is raised exactly in the fix-loop
\* iteration MaxIterations+1 counted from the task's start or from the last
\* proceed verdict, never earlier and never later, and the persisted counter
\* is that iteration count (so it is 0 again after a proceed verdict).
C2_BoundedRetry ==
    /\ (pc = "esc" /\ escRet = "reset_iter")
          => (loopIters = MaxIterations + 1 /\ iter = MaxIterations + 1)
    /\ InFixLoop => (loopIters <= MaxIterations /\ iter = loopIters)

C2_Witness ==
    pc = "esc" /\ escRet = "reset_iter" /\ escSrc = "orchestrator"
    /\ loopIters = MaxIterations + 1 /\ ~review.critical

\* C3: evaluate_trigger continues only when the escalater succeeded and its
\* output has [proceed] and not [escalate]; in every other case the phase is
\* BLOCKED, the blocked context is written and the run returns 1.
C3_FailClosed ==
    [][(pc = "esc" /\ lastOut'.role = "escalater") =>
        IF /\ lastOut'.success
           /\ "[proceed]" \in LowerSet(lastOut'.text)
           /\ "[escalate]" \notin LowerSet(lastOut'.text)
        THEN pc' = escRet /\ phase' = phase /\ blockedCtx' = blockedCtx
        ELSE pc' = "done" /\ phase' = "blocked" /\ blockedCtx' /\ exitCode' = 1]_vars

C3_Witness ==
    /\ pc = "done" /\ phase = "blocked" /\ blockedCtx /\ exitCode = 1
    /\ lastOut.role = "escalater" /\ ~lastOut.success
    /\ "[PROCEED]" \in lastOut.text

\* C4: a task whose latest review is critical does not reach the commit role
\* and is not marked DONE unless the escalater was asked about that finding
\* and said proceed.
C4_CriticalEscalated ==
    pc \in {"commit", "mark_done"} => ~critOpen

\* roles whose failure the Sequencer is to hand to the escalation engine
EscalatedRoles ==
    {"implementer", "fixer", "reviewer", "rereviewer", "tester", "commit",
     "polisher", "polish_fix", "polish_commit", "finalizer", "finalizer_fix"}

\* C5: when an agent other than the splitter returns failed or blocked, the
\* next thing the Sequencer does is an escalation engine evaluation.
C5_FailuresEscalated ==
    [][(lastOut'.role \in EscalatedRoles /\ (~lastOut'.success \/ lastOut'.blocked))
        => pc' = "esc"]_vars

\* tasks of the plan whose effective status is IN_PROGRESS
InProgressTasks == {i \in 1..Len(plan) : Status(plan[i].id) = IN_PROGRESS}

\* C6: at most one task of the plan's effective task list is IN_PROGRESS.
C6_OneInProgress == Cardinality(InProgressTasks) <= 1

C6_Witness ==
    /\ Cardinality(InProgressTasks) = 1
    /\ resumedTask # 0
    /\ pc = "impl"
    /\ \E i \in 1..Len(plan) : Status(plan[i].id) = PENDING

\* the lower-cased text contains a denylisted phrase
Denylisted(text) == \E p \in ForbiddenPatterns : p \in LowerSet(text)

\* C7: a fetched task with a denylisted phrase is marked BLOCKED, no agent
\* is invoked, phase and blocked context stay as they are and the loop goes
\* on; a fetched task without such a phrase goes to the splitter unchanged.
C7_SafetyGate ==
    [][LET i == get_next_pending_task(overrides, plan) IN
       (pc = "loop" /\ i # 0 /\ pc' \notin {"dead", "done"}) =>
          IF Denylisted(plan[i].text)
          THEN /\ StatusIn(overrides', plan[i].id) = BLOCKED
               /\ pc' = "loop"
               /\ phase' = phase
               /\ blockedCtx' = blockedCtx
               /\ lastOut' = NoOut
          ELSE /\ pc' = "split"
               /\ task' = plan[i].id
               /\ overrides' = overrides]_vars

C7_Witness ==
    /\ pc = "loop"
    /\ get_next_pending_task(overrides, plan) # 0
    /\ \E i \in 1..Len(plan) :
          /\ Denylisted(plan[i].text)
          /\ Status(plan[i].id) = BLOCKED
          /\ i < get_next_pending_task(overrides, plan)

\* C8: when the first-attempt implementer's output has the [already_complete]
\* marker the task is DONE, the counter is 0 and the loop fetches the next
\* task at once, with no reviewer, test writer, commit role or escalater.
C8_AlreadyComplete ==
    [][(pc = "impl" /\ pc' # "dead" /\ "[already_complete]" \in LowerSet(lastOut'.text))
        => (StatusIn(overrides', task) = DONE /\ iter' = 0 /\ pc' = "loop")]_vars

C8_Witness ==
    /\ pc = "loop"
    /\ lastOut.role = "implementer"
    /\ "[ALREADY_COMPLETE]" \in lastOut.text
    /\ Status(curTask) = DONE
    /\ iter = 0

\* C9: in step mode, as soon as the run marks a task DONE it sets phase
\* PAUSED and returns 0, so a run marks at most one task DONE.
C9_StepModeOneTask ==
    [][(/\ stepMode
        /\ pc \notin NoProcess
        /\ \E i \in 1..Len(plan) :
              Status(plan[i].id) # DONE /\ StatusIn(overrides', plan[i].id) = DONE)
        => (pc' = "done" /\ phase' = "paused" /\ exitCode' = 0)]_vars

\* C10: a task's effective status becomes DONE only when the Sequencer
\* records DONE for the task it has just processed, never from a status the
\* plan parser read.
C10_OnlySequencerMarksDone ==
    [][\A i \in 1..Len(plan) :
        (Status(plan[i].id) # DONE /\ StatusIn(overrides', plan[i].id) = DONE)
            => (pc \in {"impl", "mark_done"} /\ task = plan[i].id)]_vars

\* C11: a task the loop has marked DONE is not fetched again by a later
\* run (the fetch that follows the marking never returns that task).
C11_DoneNotRefetched ==
    [][(pc = "loop" /\ pc' = "split") => task' # seqDone]_vars

\* a step of process q on the store
StoreAct(q) == LoadStatusFile(q) \/ WriteStatusFile(q) \/ SavePhase(q)

\* C12: no step of the process of one plan alters the task statuses or the
\* state record of the other process's plan.
C12_PlansIsolated ==
    [][\A p \in Procs, q \in Procs :
        (p # q /\ StoreAct(q)) =>
            /\ statusFile'[PlanKey(docOf[p])] = statusFile[PlanKey(docOf[p])]
            /\ stateDirs'[PlanKey(docOf[p])] = stateDirs[PlanKey(docOf[p])]]_vars

\* the persisted phase that names the role dispatched at a control point
PhaseOfRole ==
    [impl |-> "implementing", fix |-> "fixing", review |-> "reviewing",
     rereview |-> "reviewing", test |-> "testing", commit |-> "committing",
     polish |-> "finalizing", polish_fix |-> "finalizing",
     finalizer |-> "finalizing", finalizer_fix |-> "finalizing"]

\* C13: while a role is out (dispatched and not yet returned) the persisted
\* phase is the one that names it: IMPLEMENTING for the first-attempt
\* implementer, FIXING for the fix implementer, REVIEWING for the reviewer,
\* TESTING for the test writer, COMMITTING for the commit role, FINALIZING
\* for the polisher, the finalizer and their fix passes.
C13_PhaseBeforeAction ==
    pc \in DOMAIN PhaseOfRole => phase = PhaseOfRole[pc]

C13_Witness ==
    pc = "commit" /\ phase = "committing" /\ lastOut = NoOut /\ resumedTask # 0

\* C14: no reviewer is out on a change set that the Change-Size Guard
\* calls massive.
C14_NoReviewOfMassive ==
    pc \in {"review", "rereview"} => ~treeMassive

\* C15: a task whose last reviewer output (initial review or re-review)
\* contains "prompt is too long" does not reach the commit role and is not
\* marked DONE.
C15_TooLongNotCommitted ==
    pc \in {"commit", "mark_done"} => ~review.too_long

C18_BlockedContextOnlyWhileBlocked ==
    [][/\ blockedCtx => phase = "blocked"
       /\ blockedCtx' => phase' = "blocked"
       /\ (~blockedCtx /\ blockedCtx') => (pc' = "done" /\ exitCode' = 1)
       /\ (blockedCtx /\ ~blockedCtx') => (phase = "blocked" /\ phase' = "idle")]_vars

\* the Sequencer blocked the run itself (Change-Size Guard or a review that
\* ran out of prompt): the artifact is there and the phase is BLOCKED
C18_Witness ==
    /\ blockedCtx
    /\ phase = "blocked"
    /\ pc = "done"
    /\ lastOut = NoOut
    /\ curTask # 0

\* the escalater answered and evaluate_trigger lets the caller continue
EscalationProceeded ==
    /\ pc = "esc"
    /\ lastOut'.role = "escalater"
    /\ lastOut'.success
    /\ "[proceed]" \in LowerSet(lastOut'.text)
    /\ "[escalate]" \notin LowerSet(lastOut'.text)

\* the finalizer answered with [APPROVED] and no [ISSUES], or with neither
FinalizerAccepted ==
    /\ pc = "finalizer"
    /\ lastOut'.role = "finalizer"
    /\ lastOut'.success
    /\ "[issues]" \notin LowerSet(lastOut'.text)

\* C19: in a finalization pass the finalizer is dispatched at most 5 times;
\* an approved or ambiguous output ends the loop, an output with issues is
\* followed by a fix pass and the loop head; when the 5 dispatches are used
\* up the escalater is dispatched once with source orchestrator and the
\* loop is not entered again; the phase becomes COMPLETE only through
\* cleanup, which is reached only from an accepted finalizer output or from
\* an escalation that proceeded.
C19_FinalizerLoop ==
    [][/\ pc' = "finalizer" => finIter' \in 1..MaxFinalizerIterations
       /\ (pc = "fin_loop" /\ pc' = "finalizer") => finIter' = finIter + 1
       /\ FinalizerAccepted => pc' = "cleanup"
       /\ (pc = "finalizer" /\ lastOut'.role = "finalizer" /\ lastOut'.success
             /\ "[issues]" \in LowerSet(lastOut'.text)) => pc' = "finalizer_fix"
       /\ (pc = "finalizer_fix" /\ lastOut'.role = "finalizer_fix") =>
             \/ pc' = "fin_loop"
             \/ pc' = "esc" /\ escRet' = "fin_loop"
       /\ (pc = "fin_loop" /\ pc' \in {"finalizer", "esc"}) =>
             (finIter = MaxFinalizerIterations
                <=> (pc' = "esc" /\ escSrc' = "orchestrator" /\ escRet' = "cleanup"))
       /\ (pc = "esc" /\ escSrc = "orchestrator" /\ escRet = "cleanup") =>
             pc' \in {"cleanup", "done", "dead"}
       /\ (pc' = "cleanup" /\ pc # "cleanup") =>
             (FinalizerAccepted \/ EscalationProceeded)
       /\ (phase' = "complete" /\ phase # "complete") => pc = "cleanup"]_vars

\* five finalizer outputs had issues: the escalater runs for the orchestrator
C19_Witness ==
    /\ pc = "esc"
    /\ escSrc = "orchestrator"
    /\ escRet = "cleanup"
    /\ finIter = MaxFinalizerIterations
    /\ phase = "finalizing"

\* C20: the phase becomes FINALIZING, and later COMPLETE, only when every
\* task of the plan has status DONE.
C20_FinalizationOnlyWhenAllDone ==
    [][(phase' \in {"finalizing", "complete"} /\ phase' # phase) =>
          \A i \in 1..Len(plan') : StatusIn(overrides', plan'[i].id) = DONE]_vars

\* C21: parse_review_result never returns approved together with critical.
C21_CriticalDominatesApproval ==
    calc.fn = "parse_review_result" => ~(calc.ret.approved /\ calc.ret.critical)

\* a text with an approval marker and a critical phrase was classified
C21_Witness ==
    /\ calc.fn = "parse_review_result"
    /\ "[approved]" \in LowerSet(calc.arg)
    /\ calc.ret.critical
    /\ ~calc.ret.approved

\* C22: for a review text with the [approved] marker, a heuristic issue
\* phrase ("should be", "consider", "recommend") and no [issues] or
\* [suggestions] marker, parse_review_result returns has_issues and not
\* approved.
C22_CaveatUnderminesApproval ==
    LET L == LowerSet(calc.arg) IN
    (/\ calc.fn = "parse_review_result"
     /\ "[approved]" \in L
     /\ L \cap {"should be", "consider", "recommend"} # {}
     /\ L \cap {"[issues]", "[suggestions]"} = {})
    => (calc.ret.has_issues /\ ~calc.ret.approved)

C24_EscalateWins ==
    LET L == LowerSet(calc.arg) IN
    calc.fn = "parse_escalation_result" =>
        /\ calc.ret.escalate <=> "[escalate]" \in L
        /\ calc.ret.proceed <=> ("[proceed]" \in L /\ "[escalate]" \notin L)
        /\ ~(calc.ret.proceed /\ calc.ret.escalate)

\* a text with both markers, in different casings, was classified: escalate
C24_Witness ==
    /\ calc.fn = "parse_escalation_result"
    /\ "[PROCEED]" \in calc.arg
    /\ "[Escalate]" \in calc.arg
    /\ calc.ret.escalate
    /\ ~calc.ret.proceed

\* C25: _apply_status_overrides gives every task whose id is in the override
\* map the map's status (PENDING when the stored value is no valid status)
\* and every other task PENDING, whatever the parser said; the order and the
\* ids of the tasks are unchanged.
C25_OverridesWin ==
    calc.fn = "_apply_status_overrides" =>
        LET tasks == calc.arg.tasks
            ov == calc.arg.ov
        IN  /\ Len(calc.ret) = Len(tasks)
            /\ \A i \in 1..Len(tasks) :
                  /\ calc.ret[i].id = tasks[i].id
                  /\ calc.ret[i].status =
                        (IF tasks[i].id \notin DOMAIN ov THEN PENDING
                         ELSE IF ov[tasks[i].id] \in TaskStatus THEN ov[tasks[i].id]
                         ELSE PENDING)

\* the parser said DONE for two tasks: the one without an override and the
\* one whose stored value is invalid both came out PENDING
C25_Witness ==
    /\ calc.fn = "_apply_status_overrides"
    /\ Len(calc.arg.tasks) = 2
    /\ calc.arg.tasks[1] = [id |-> 2, status |-> DONE]
    /\ calc.arg.tasks[2] = [id |-> 1, status |-> DONE]
    /\ DOMAIN calc.arg.ov = {1}
    /\ calc.arg.ov[1] = "bogus"
    /\ calc.ret[1].status = PENDING
    /\ calc.ret[2].status = PENDING

\* C26: get_next_pending_task returns the first task in declaration order
\* with status IN_PROGRESS if there is one, otherwise the first with status
\* PENDING, otherwise none; it never returns a DONE or BLOCKED task.
C26_NextPendingTask ==
    calc.fn = "get_next_pending_task" =>
        LET st == apply_status_overrides(calc.arg.tasks, calc.arg.ov)
            InProg == {i \in 1..Len(st) : st[i].status = IN_PROGRESS}
            Pend == {i \in 1..Len(st) : st[i].status = PENDING}
            r == calc.ret
        IN  /\ InProg # {} => (r \in InProg /\ \A j \in InProg : r <= j)
            /\ (InProg = {} /\ Pend # {}) => (r \in Pend /\ \A j \in Pend : r <= j)
            /\ (InProg = {} /\ Pend = {}) => r = 0
            /\ r # 0 => st[r].status \notin {DONE, BLOCKED}

\* a pending task is declared before the task in progress: the latter is
\* returned
C26_Witness ==
    /\ calc.fn = "get_next_pending_task"
    /\ calc.ret = 2
    /\ StatusIn(calc.arg.ov, calc.arg.tasks[1].id) = PENDING
    /\ StatusIn(calc.arg.ov, calc.arg.tasks[2].id) = IN_PROGRESS

\* C27: is_massive is true exactly when (deletions > 2000 and deletions >
\* 10 x insertions) or files_deleted > 20; the thresholds themselves are
\* not massive, and insertions = 0 is handled.
C27_MassiveThreshold ==
    calc.fn = "get_change_stats" =>
        /\ calc.ret \in BOOLEAN
        /\ calc.ret <=>
              \/ calc.arg.deletions > 2000 /\ calc.arg.deletions > 10 * calc.arg.insertions
              \/ calc.arg.files_deleted > 20

\* 2001 deletions with no insertion at all: massive
C27_Witness ==
    /\ calc.fn = "get_change_stats"
    /\ calc.arg.insertions = 0
    /\ calc.arg.deletions = 2001
    /\ calc.arg.files_deleted = 20
    /\ calc.ret = TRUE

\* control points from the head of the loop to the dispatch of the implementer
LoopHead == {"loop", "split", "apply_split"}

ProceededNow ==
    /\ lastOut.role = "escalater"
    /\ lastOut.success
    /\ "[proceed]" \in LowerSet(lastOut.text)
    /\ "[escalate]" \notin LowerSet(lastOut.text)

\* C29: a run that is under way returns, or an escalation lets it continue:
\* without escalation approval no run goes on for ever.
C29_TerminatesWithoutProceed ==
    (pc \notin NoProcess) ~> (pc \in NoProcess \/ ProceededNow)

\* C30: the phase becomes BLOCKED and the blocked context is written only in
\* the step in which the escalater has answered an Escalation Engine
\* evaluation; no other step of the Sequencer stops the run for a human.
C30_BlockOnlyByEscalation ==
    [][((phase # "blocked" \/ ~blockedCtx) /\ phase' = "blocked" /\ blockedCtx')
          => (pc = "esc" /\ lastOut'.role = "escalater")]_vars

\* control points at which an agent role is out
AgentOut == {"split", "apply_split", "impl", "review", "fix", "rereview", "test",
             "commit", "esc", "polish", "polish_fix", "polish_commit",
             "finalizer", "finalizer_fix"}

\* C31: every reviewer dispatch (initial review and re-review) passes the
\* session token state.json holds at that moment; a session id a reviewer
\* returns is in state.json when the step that consumes its result is over;
\* a stored token is never cleared; no other role is given a resume token.
C31_ReviewerSessionContinuity ==
    [][/\ (pc' \in {"review", "rereview"} /\ pc' # pc)
            => ResumeToken(pc', held') = session'
       /\ (pc \in {"review", "rereview"} /\ lastOut'.role \in {"reviewer", "rereviewer"})
            => (returned' # "none" => session' = returned')
       /\ session # "none" => session' # "none"
       /\ (pc' \in AgentOut \ {"review", "rereview"})
            => ResumeToken(pc', held') = "none"]_vars

\* a second re-review resumes the session the first re-review returned,
\* which differs from the one the initial review had returned
C31_Witness ==
    /\ pc = "rereview"
    /\ iter = 2
    /\ session = "s2"
    /\ held = "s2"

\* the initial review failed outright and evaluate_trigger let the run go
\* on; the run is at the checks that follow the review
FailedReviewProceeded ==
    /\ escSrc = "reviewer"
    /\ escRet = "post_review"
    /\ \/ pc = "post_review"
       \/ pc = "fix_head" /\ lastOut.role = "none"

\* C32: after a failed initial review on which the Escalation Engine said
\* proceed, the review counts as approved whatever its text: the run is not
\* blocked and enters no fix-loop iteration, it goes on towards the commit.
C32_FailedReviewCountsAsApproved ==
    [][FailedReviewProceeded =>
          /\ phase' # "blocked"
          /\ pc' \notin {"crit_check", "esc"}
          /\ iter' = iter]_vars

\* the splitter's text asks for a split: [split] without [no_split], and a
\* subtask section that is not empty
AsksForSplit(text) ==
    /\ "[split]" \in LowerSet(text)
    /\ "[no_split]" \notin LowerSet(text)
    /\ {"## subtasks", "subtask body"} \subseteq LowerSet(text)

\* the loop goes on to implement task t as it is: current task, IN_PROGRESS,
\* phase IMPLEMENTING, implementer dispatched
ImplementedAsIs(t) ==
    /\ pc' = "impl"
    /\ curTask' = t
    /\ StatusIn(overrides', t) = IN_PROGRESS
    /\ phase' = "implementing"
    /\ plan' = plan
    /\ blockedCtx' = blockedCtx

\* C33: the plan rewrite is dispatched exactly when the splitter succeeded
\* and asks for a split; the plan changes only in the step that takes a
\* successful rewrite, which goes back to the head of the loop and leaves
\* task statuses, current task and phase alone; after a failed splitter, a
\* splitter that asks for no split, or a failed rewrite the task is
\* implemented as it is, with no escalation and no block.
C33_TaskSplitting ==
    [][/\ (pc = "split" /\ lastOut'.role = "splitter") =>
            IF lastOut'.success /\ AsksForSplit(lastOut'.text)
            THEN pc' = "apply_split" /\ UNCHANGED durable
            ELSE ImplementedAsIs(task)
       /\ (pc = "apply_split" /\ lastOut'.role = "apply_split") =>
            IF lastOut'.success
            THEN /\ pc' = "loop"
                 /\ UNCHANGED <<overrides, curTask, phase, iter, blockedCtx>>
            ELSE ImplementedAsIs(task)
       /\ plan' # plan => (pc = "apply_split" /\ lastOut'.role = "apply_split"
                            /\ lastOut'.success)]_vars

\* the plan has been rewritten: the original task 1 is gone, its first
\* subtask is being looked at, and nothing was marked IN_PROGRESS
C33_Witness ==
    /\ pc = "split"
    /\ task = SubId(1, 1)
    /\ 1 \notin PlanIds
    /\ \A t \in PlanIds : Status(t) # IN_PROGRESS
    /\ curTask = 0

\* the tasks declared before task t in plan p
DeclaredBefore(p, t) ==
    {p[j].id : j \in {k \in 1..Len(p) : \E i \in 1..Len(p) : p[i].id = t /\ k < i}}

SuspendPhases == {"blocked", "paused"}

\* C35: the step that persists BLOCKED or PAUSED ends the run; while one of
\* them is persisted no process is running on the plan, so no agent is
\* invoked and no task status or phase is written; the phase leaves them
\* only in the first step of a later `dvx run`, and then to IDLE.
C35_SuspendStates ==
    [][/\ (phase' \in SuspendPhases /\ phase' # phase) => pc' = "done"
       /\ phase \in SuspendPhases => pc \in NoProcess
       /\ (phase \in SuspendPhases /\ pc' \notin NoProcess) =>
              (phase' = "idle" /\ pc' = "loop")
       /\ (phase \in SuspendPhases /\ phase' # phase) => phase' = "idle"
       /\ (phase \in SuspendPhases /\ phase' = phase) =>
              UNCHANGED <<overrides, curTask, iter, plan>>]_vars

\* the run has paused after committing task 1 in step mode and has returned
C35_Witness ==
    /\ phase = "paused"
    /\ pc = "done"
    /\ exitCode = 0
    /\ curTask = 1
    /\ Status(1) = DONE
    /\ Status(2) = PENDING

\* C36: when no process is on the plan, state.json holds the last record
\* written completely or the one that was being written, never a partial
\* one; and a run that starts on a plan whose state has been written once
\* goes on from that record and does not create an initial state.
C36_DurableStateSurvives ==
    [][/\ writer'.pos = "none" => stateFile' \in {lastWhole', writer'.rec}
       /\ (writer.pos = "none" /\ writer'.pos # "none" /\ lastWhole # AbsentFile)
            => (writer'.pos = "running" /\ writer'.rec \in {lastWhole, writer.rec})]_vars

\* C37: the Sequencer leaves the review of a task for the test and commit
\* steps only if the most recent review was classified approved or an
\* escalation for the task returned proceed in this pass; a review that is
\* neither approved nor flagged with issues does not lead to a commit.
C37_CommitOnlyWhenApproved ==
    [][(pc = "fix_head" /\ pc' = "test_check")
          => (review.approved \/ escRet # "none")]_vars

\* C38: in every persisted state the iteration counter is between 0 and
\* MaxIterations + 1; it is 0 while the first-attempt implementer of a task
\* is running and 0 again once a task has been marked DONE, so the fix
\* iterations of one task do not count against the next.
C38_IterationBounds ==
    /\ stateExists => (0 <= iter /\ iter <= MaxIterations + 1)
    /\ pc = "impl" => iter = 0
    /\ seqDone # 0 => iter = 0

C38_Witness ==
    /\ seqDone = 1 /\ pc = "loop" /\ iter = 0
    /\ curTask = 1 /\ StatusIn(overrides, 1) = DONE

\* C39: once step mode is stored as enabled in the plan's state, no later
\* step disables it, and every run on that state, started with or without
\* --step, pauses (phase PAUSED, return 0) when it has completed a task.
C39_StepModeSticky ==
    [][(stateExists /\ stepMode)
        => /\ stepMode'
           /\ (pc \notin NoProcess
                /\ \E i \in 1..Len(plan) :
                      /\ StatusIn(overrides, plan[i].id) # DONE
                      /\ StatusIn(overrides', plan[i].id) = DONE)
                => (pc' = "done" /\ phase' = "paused")]_vars

\* C40: every decision block in the output of a first-attempt or fix
\* implementer is added, in order, at the end of the decision log of its
\* topic in the step in which the Sequencer takes that output, whatever the
\* outcome the output reports; and no step removes or rewrites an entry:
\* each log only ever grows at its end.
C40_DecisionsAppendOnly ==
    [][/\ \A t \in Topics :
            /\ Len(decLog[t]) <= Len(decLog'[t])
            /\ SubSeq(decLog'[t], 1, Len(decLog[t])) = decLog[t]
       /\ (pc \in {"impl", "fix"} /\ lastOut'.role \in {"implementer", "fixer"})
            => \A t \in Topics :
                 decLog'[t] = decLog[t] \o
                   [i \in 1..Len(SelectSeq(lastOut'.blocks, LAMBDA b : b.whole /\ b.topic = t))
                      |-> SelectSeq(lastOut'.blocks, LAMBDA b : b.whole /\ b.topic = t)[i].decision]
      ]_vars
====
